---- MODULE Spec2Model ----
(***************************************************************************)
(* Model of streamlit_app.py (Exotica Hortus 2.0): the SQLite record store *)
(* (init_db, save_plant, get_all_plants), the research client              *)
(* (perform_research) and the Research Lab form handler.                   *)
(*                                                                         *)
(* Python values are pairs <<tag, payload>>; the tag comes first so that   *)
(* two values of different Python types are never compared payload to     *)
(* payload.  Text is a TLA+ string, read character by character.           *)
(*   <<"none", 0>>            None                                         *)
(*   <<"bool", b>>            True / False                                 *)
(*   <<"int", n>>             int                                          *)
(*   <<"float", t>>           float, in tenths (t = 200 is 20.0)           *)
(*   <<"str", s>>             str                                          *)
(*   <<"datetime", n>>        datetime, n the clock tick it was read at    *)
(*   <<"list", <<v1, ...>>>>  list                                         *)
(*   <<"dict", <<<<k1, v1>>, ...>>>>  dict, in insertion order             *)
(***************************************************************************)
EXTENDS Integers, Sequences, FiniteSets, TLC

\* ---------------------------------------------------------------- bounds

\* Largest value of the wall clock (datetime.now()) a submission reads.
MaxClock == 2
\* Most connections left open at once: an operation that would leave one more
\* open is not taken until the garbage collector has closed one.
MaxOpen == 1

\* ---------------------------------------------------------- Python values

Tag(v) == v[1]
Val(v) == v[2]

PyNone == <<"none", 0>>
PyBool(b) == <<"bool", b>>
PyInt(n) == <<"int", n>>
PyFloat(t) == <<"float", t>>
PyStr(s) == <<"str", s>>
PyDatetime(n) == <<"datetime", n>>
PyList(xs) == <<"list", xs>>
PyDict(kvs) == <<"dict", kvs>>

\* Python truthiness, as used by `if not api_key` and `if res`.
Truthy(v) ==
    CASE Tag(v) = "none" -> FALSE
      [] Tag(v) = "bool" -> Val(v)
      [] Tag(v) = "int" -> Val(v) # 0
      [] Tag(v) = "float" -> Val(v) # 0
      [] Tag(v) = "str" -> Len(Val(v)) > 0
      [] Tag(v) = "list" -> Len(Val(v)) > 0
      [] Tag(v) = "dict" -> Len(Val(v)) > 0
      [] OTHER -> TRUE

IsNumeric(v) == Tag(v) \in {"bool", "int", "float"}

\* The value of a number in tenths, so that 1 == 1.0 == True as in Python.
Tenths(v) ==
    CASE Tag(v) = "bool" -> (IF Val(v) THEN 10 ELSE 0)
      [] Tag(v) = "int" -> 10 * Val(v)
      [] Tag(v) = "float" -> Val(v)

RECURSIVE PyEq(_, _)
\* Python's ==: numbers compare by value across bool/int/float, lists element
\* by element, everything else by type and value.
PyEq(a, b) ==
    IF IsNumeric(a) /\ IsNumeric(b) THEN Tenths(a) = Tenths(b)
    ELSE IF Tag(a) # Tag(b) THEN FALSE
    ELSE IF Tag(a) = "list"
         THEN /\ Len(Val(a)) = Len(Val(b))
              /\ \A i \in 1..Len(Val(a)) : PyEq(Val(a)[i], Val(b)[i])
    ELSE Val(a) = Val(b)

\* dict operations: `k in d`, d[k] (only where k in d), d[k] = v.
HasKey(d, k) == \E i \in 1..Len(Val(d)) : Val(d)[i][1] = k
GetItem(d, k) == Val(d)[CHOOSE i \in 1..Len(Val(d)) : Val(d)[i][1] = k][2]
SetItem(d, k, v) ==
    IF HasKey(d, k)
    THEN PyDict([i \in 1..Len(Val(d)) |->
                    IF Val(d)[i][1] = k THEN <<k, v>> ELSE Val(d)[i]])
    ELSE PyDict(Append(Val(d), <<k, v>>))
\* p.get(k, default)
DictGet(d, k, default) == IF HasKey(d, k) THEN GetItem(d, k) ELSE default

\* ------------------------------------------------------------------ text

CharAt(s, i) == IF i >= 1 /\ i <= Len(s) THEN SubSeq(s, i, i) ELSE ""
Digits == "0123456789"
DigitChar(d) == SubSeq(Digits, d + 1, d + 1)
IsDigit(c) == \E d \in 0..9 : DigitChar(d) = c
DigitVal(c) == CHOOSE d \in 0..9 : DigitChar(d) = c

RECURSIVE NatToStr(_)
NatToStr(n) ==
    IF n < 10 THEN DigitChar(n) ELSE NatToStr(n \div 10) \o DigitChar(n % 10)
\* str(n) for an int
IntToStr(n) == IF n < 0 THEN "-" \o NatToStr(-n) ELSE NatToStr(n)
\* repr of a float held in tenths: 200 -> "20.0", -5 -> "-0.5"
FloatToStr(t) ==
    LET a == IF t < 0 THEN -t ELSE t
    IN (IF t < 0 THEN "-" ELSE "") \o NatToStr(a \div 10) \o "." \o DigitChar(a % 10)

\* ------------------------------------------------------------------ JSON

RECURSIVE Serializable(_)
\* Whether json.dumps accepts the value (a datetime raises TypeError).
Serializable(v) ==
    CASE Tag(v) \in {"none", "bool", "int", "float", "str"} -> TRUE
      [] Tag(v) = "list" -> \A i \in 1..Len(Val(v)) : Serializable(Val(v)[i])
      [] Tag(v) = "dict" -> \A i \in 1..Len(Val(v)) : Serializable(Val(v)[i][2])
      [] OTHER -> FALSE

RECURSIVE DumpsText(_)
RECURSIVE DumpsItems(_, _)
RECURSIVE DumpsMembers(_, _)
\* The items of a list from the i-th on, separated by ", " (json's default).
DumpsItems(xs, i) ==
    IF i > Len(xs) THEN ""
    ELSE DumpsText(xs[i]) \o (IF i < Len(xs) THEN ", " ELSE "") \o DumpsItems(xs, i + 1)
\* The members of a dict from the i-th on, as "key": value.
DumpsMembers(kvs, i) ==
    IF i > Len(kvs) THEN ""
    ELSE "\"" \o kvs[i][1] \o "\": " \o DumpsText(kvs[i][2])
         \o (IF i < Len(kvs) THEN ", " ELSE "") \o DumpsMembers(kvs, i + 1)
DumpsText(v) ==
    CASE Tag(v) = "none" -> "null"
      [] Tag(v) = "bool" -> (IF Val(v) THEN "true" ELSE "false")
      [] Tag(v) = "int" -> IntToStr(Val(v))
      [] Tag(v) = "float" -> FloatToStr(Val(v))
      [] Tag(v) = "str" -> "\"" \o Val(v) \o "\""
      [] Tag(v) = "list" -> "[" \o DumpsItems(Val(v), 1) \o "]"
      [] Tag(v) = "dict" -> "{" \o DumpsMembers(Val(v), 1) \o "}"

\* json.dumps(v): the text, or ok = FALSE where it raises TypeError.
json_dumps(v) ==
    IF Serializable(v) THEN [ok |-> TRUE, text |-> DumpsText(v)]
    ELSE [ok |-> FALSE, text |-> ""]

\* A parse step's result: the value read and the position after it.
ParseFail == [ok |-> FALSE, val |-> PyNone, pos |-> 0]
ParseOk(v, p) == [ok |-> TRUE, val |-> v, pos |-> p]

\* The least element of a non-empty set of positions.
First(S) == CHOOSE j \in S : \A k \in S : j <= k

\* The first position from i on that holds no whitespace (Len(s) + 1: none).
SkipWs(s, i) ==
    First({j \in i..(Len(s) + 1) : CharAt(s, j) \notin {" ", "\n", "\t", "\r"}})

\* The first position from i on that holds no digit.
ScanDigits(s, i) == First({j \in i..(Len(s) + 1) : ~IsDigit(CharAt(s, j))})

\* A string whose opening quote is at i: it ends at the first quote after it.
\* It is malformed when unterminated; escapes are outside the modelled
\* alphabet, so a backslash is malformed too.
QuoteAt(s, m) == IF CharAt(s, m) = "\\" THEN 0 ELSE m
ClosingQuote(s, stops) == IF stops = {} THEN 0 ELSE QuoteAt(s, First(stops))
ScanString(s, i) == ClosingQuote(s, {j \in i..Len(s) : CharAt(s, j) \in {"\"", "\\"}})
StringTo(s, i, e) ==
    IF e = 0 THEN ParseFail
    ELSE ParseOk(PyStr(IF e = i + 1 THEN "" ELSE SubSeq(s, i + 1, e - 1)), e + 1)
ParseString(s, i) == StringTo(s, i, ScanString(s, i + 1))

RECURSIVE NatVal(_, _, _)
\* The number written by the digits s[a..b].
NatVal(s, a, b) ==
    IF b < a THEN 0 ELSE 10 * NatVal(s, a, b - 1) + DigitVal(CharAt(s, b))

\* A number at i: -?(0|[1-9][0-9]*)(.[0-9]+)?  Its integer part is s[a..b-1].
\* Floats keep one decimal place; exponents are outside the modelled alphabet.
Signed(neg, n) == IF neg THEN -n ELSE n
NumberIn(s, neg, a, b) ==
    IF b = a THEN ParseFail
    ELSE IF CharAt(s, b) = "." /\ IsDigit(CharAt(s, b + 1))
    THEN ParseOk(PyFloat(Signed(neg, 10 * NatVal(s, a, b - 1) + DigitVal(CharAt(s, b + 1)))),
                 ScanDigits(s, b + 1))
    ELSE ParseOk(PyInt(Signed(neg, NatVal(s, a, b - 1))), b)
NumberAt(s, neg, a) ==
    NumberIn(s, neg, a, IF CharAt(s, a) = "0" THEN a + 1 ELSE ScanDigits(s, a))
ParseNumber(s, i) == NumberAt(s, CharAt(s, i) = "-", IF CharAt(s, i) = "-" THEN i + 1 ELSE i)

IsLiteral(s, i, lit) ==
    i + Len(lit) - 1 <= Len(s) /\ SubSeq(s, i, i + Len(lit) - 1) = lit

RECURSIVE ParseValue(_, _)
RECURSIVE ParseItems(_, _, _)
RECURSIVE ParseMembers(_, _, _)

\* The items of an array, the next one expected at i; acc holds those read.
\* After an item v comes, at e, the closing bracket or a comma.
ItemsNext(s, items, e) ==
    IF CharAt(s, e) = "]" THEN ParseOk(PyList(items), e + 1)
    ELSE IF CharAt(s, e) = "," /\ Len(items) > 0 THEN ParseItems(s, e + 1, items)
    ELSE ParseFail
ItemsAfter(s, acc, v) ==
    IF ~v.ok THEN ParseFail ELSE ItemsNext(s, Append(acc, v.val), SkipWs(s, v.pos))
ParseItems(s, i, acc) == ItemsAfter(s, acc, ParseValue(s, i))

\* One member of an object: a key string at j, a colon at c, a value v.
MemberFail == [ok |-> FALSE, key |-> "", val |-> PyNone, pos |-> 0]
MemberOf(key, v) ==
    IF v.ok THEN [ok |-> TRUE, key |-> key, val |-> v.val, pos |-> v.pos] ELSE MemberFail
MemberValue(s, key, c) ==
    IF CharAt(s, c) # ":" THEN MemberFail ELSE MemberOf(key, ParseValue(s, c + 1))
MemberColon(s, k) ==
    IF ~k.ok THEN MemberFail ELSE MemberValue(s, Val(k.val), SkipWs(s, k.pos))
MemberKey(s, j) ==
    IF CharAt(s, j) # "\"" THEN MemberFail ELSE MemberColon(s, ParseString(s, j))
ParseMember(s, i) == MemberKey(s, SkipWs(s, i))

\* The members of an object, the next key expected at i; acc holds those
\* read, and a repeated key keeps its last value.  After a member comes, at e,
\* the closing brace or a comma.
MembersNext(s, d, e) ==
    IF CharAt(s, e) = "}" THEN ParseOk(d, e + 1)
    ELSE IF CharAt(s, e) = "," /\ Len(Val(d)) > 0 THEN ParseMembers(s, e + 1, Val(d))
    ELSE ParseFail
MembersAfter(s, acc, m) ==
    IF ~m.ok THEN ParseFail
    ELSE MembersNext(s, SetItem(PyDict(acc), m.key, m.val), SkipWs(s, m.pos))
ParseMembers(s, i, acc) == MembersAfter(s, acc, ParseMember(s, i))

\* An object or an array whose first non-blank position after the opening
\* bracket is j.
ObjectFrom(s, j) ==
    IF CharAt(s, j) = "}" THEN ParseOk(PyDict(<<>>), j + 1) ELSE ParseMembers(s, j, <<>>)
ArrayFrom(s, j) ==
    IF CharAt(s, j) = "]" THEN ParseOk(PyList(<<>>), j + 1) ELSE ParseItems(s, j, <<>>)

\* The value that starts at j with the character c.
ValueOf(s, j, c) ==
    IF c = "{" THEN ObjectFrom(s, SkipWs(s, j + 1))
    ELSE IF c = "[" THEN ArrayFrom(s, SkipWs(s, j + 1))
    ELSE IF c = "\"" THEN ParseString(s, j)
    ELSE IF c = "-" \/ IsDigit(c) THEN ParseNumber(s, j)
    ELSE IF IsLiteral(s, j, "null") THEN ParseOk(PyNone, j + 4)
    ELSE IF IsLiteral(s, j, "true") THEN ParseOk(PyBool(TRUE), j + 4)
    ELSE IF IsLiteral(s, j, "false") THEN ParseOk(PyBool(FALSE), j + 5)
    ELSE ParseFail
ValueAt(s, j) == ValueOf(s, j, CharAt(s, j))
ParseValue(s, i) == ValueAt(s, SkipWs(s, i))

\* json.loads(s): the value, or ok = FALSE where it raises JSONDecodeError
\* (no value, a malformed value, or text after the value).
Loaded(s, r) ==
    IF r.ok /\ SkipWs(s, r.pos) = Len(s) + 1
    THEN [ok |-> TRUE, val |-> r.val]
    ELSE [ok |-> FALSE, val |-> PyNone]
json_loads(s) == Loaded(s, ParseValue(s, 1))

\* ---------------------------------------------------------------- SQLite
\* A stored value is <<class, payload>> with class NULL, INTEGER, REAL (in
\* tenths) or TEXT.

SqlNull == <<"NULL", 0>>

\* The plants table's columns, in declaration order.
Columns ==
    << "id", "common_name", "scientific_name", "usda_zones", "min_temp", "max_temp",
       "drought_tolerance", "watering_requirements", "watering_frequency", "sunlight",
       "soil_type", "fertilization_schedule", "notes", "herbal_benefits",
       "herbal_properties", "herbal_dosage", "herbal_notes", "is_wishlist",
       "date_added", "images", "grounding_sources" >>

ColumnIndex(c) == CHOOSE i \in 1..Len(Columns) : Columns[i] = c

\* The affinity SQLite derives from each column's declared type.
Affinity(c) ==
    CASE c \in {"min_temp", "max_temp"} -> "REAL"
      [] c \in {"is_wishlist", "date_added"} -> "NUMERIC"
      [] OTHER -> "TEXT"

\* datetime.isoformat(" ") of the datetime read at tick n (n seconds after the
\* epoch, n < 60, no microseconds).
IsoFormat(n) == "1970-01-01 00:00:" \o DigitChar(n \div 10) \o DigitChar(n % 10)

\* sqlite3's binding of a Python parameter; a list or a dict is not supported.
Adapt(v) ==
    CASE Tag(v) = "none" -> [ok |-> TRUE, sql |-> SqlNull]
      [] Tag(v) = "bool" -> [ok |-> TRUE, sql |-> <<"INTEGER", IF Val(v) THEN 1 ELSE 0>>]
      [] Tag(v) = "int" -> [ok |-> TRUE, sql |-> <<"INTEGER", Val(v)>>]
      [] Tag(v) = "float" -> [ok |-> TRUE, sql |-> <<"REAL", Val(v)>>]
      [] Tag(v) = "str" -> [ok |-> TRUE, sql |-> <<"TEXT", Val(v)>>]
      [] Tag(v) = "datetime" -> [ok |-> TRUE, sql |-> <<"TEXT", IsoFormat(Val(v))>>]
      [] OTHER -> [ok |-> FALSE, sql |-> SqlNull]

\* Whether a text is a number literal, and the number.
NumberLiteral(s) ==
    LET r == ParseNumber(s, 1)
    IN IF r.ok /\ r.pos = Len(s) + 1
       THEN [ok |-> TRUE, val |-> r.val]
       ELSE [ok |-> FALSE, val |-> PyNone]

\* The conversion a column's affinity applies to a value on insert.
ApplyAffinity(aff, x) ==
    CASE aff = "TEXT" /\ x[1] = "INTEGER" -> <<"TEXT", IntToStr(x[2])>>
      [] aff = "TEXT" /\ x[1] = "REAL" -> <<"TEXT", FloatToStr(x[2])>>
      [] aff = "REAL" /\ x[1] = "INTEGER" -> <<"REAL", 10 * x[2]>>
      [] aff \in {"REAL", "NUMERIC"} /\ x[1] = "TEXT" ->
            LET n == NumberLiteral(x[2])
            IN IF ~n.ok THEN x
               ELSE IF aff = "REAL" THEN <<"REAL", Tenths(n.val)>>
               ELSE IF Tenths(n.val) % 10 = 0 THEN <<"INTEGER", Tenths(n.val) \div 10>>
               ELSE <<"REAL", Tenths(n.val)>>
      [] aff = "NUMERIC" /\ x[1] = "REAL" /\ x[2] % 10 = 0 -> <<"INTEGER", x[2] \div 10>>
      [] OTHER -> x

\* Two primary-key values conflict when both are non-NULL and equal.
SameKey(a, b) == a[1] # "NULL" /\ a[1] = b[1] /\ a[2] = b[2]

\* A plain INSERT that ignored the primary key: C2 tells it from the statement used.
SqlInsert(table, row) == Append(table, row)
\* INSERT OR IGNORE, which keeps the row in conflict: C10 tells it from the
\* statement used.
SqlInsertOrIgnore(table, row) ==
    IF \E i \in 1..Len(table) : SameKey(table[i][1], row[1]) THEN table ELSE Append(table, row)

\* INSERT OR REPLACE: the rows in conflict on the primary key (column 1) are
\* deleted, then the new row is inserted.
SqlInsertOrReplace(table, row) ==
    Append(SelectSeq(table, LAMBDA r : ~SameKey(r[1], row[1])), row)

\* ------------------------------------------------------------ save_plant

\* The parameter tuple of the INSERT, in order: how each value is taken from p.
SaveExprs ==
    << <<"id", "item">>, <<"common_name", "item">>, <<"scientific_name", "item">>,
       <<"usda_zones", "dumps">>,
       <<"min_temp", "item">>, <<"max_temp", "item">>, <<"drought_tolerance", "item">>,
       <<"watering_requirements", "item">>,
       <<"watering_frequency", "item">>, <<"sunlight", "item">>, <<"soil_type", "item">>,
       <<"fertilization_schedule", "item">>,
       <<"notes", "item">>, <<"herbal_benefits", "item">>, <<"herbal_properties", "item">>,
       <<"herbal_dosage", "item">>,
       <<"herbal_notes", "item">>, <<"is_wishlist", "item">>, <<"date_added", "item">>,
       <<"images", "dumps_get">>,
       <<"grounding_sources", "dumps_get">> >>

\* One parameter: p[k], json.dumps(p[k]) or json.dumps(p.get(k, [])).
Dumped(d) ==
    IF d.ok THEN [raised |-> "none", val |-> PyStr(d.text)]
    ELSE [raised |-> "TypeError", val |-> PyNone]
EvalParam(p, e) ==
    IF e[2] = "dumps_get" THEN Dumped(json_dumps(DictGet(p, e[1], PyList(<<>>))))
    ELSE IF ~HasKey(p, e[1]) THEN [raised |-> "KeyError", val |-> PyNone]
    ELSE IF e[2] = "dumps" THEN Dumped(json_dumps(GetItem(p, e[1])))
    ELSE [raised |-> "none", val |-> GetItem(p, e[1])]

\* The whole tuple, or the first exception its evaluation raises.
FirstRaised(rs, bad) ==
    IF bad = {} THEN [raised |-> "none", params |-> [i \in 1..Len(rs) |-> rs[i].val]]
    ELSE [raised |-> rs[First(bad)].raised, params |-> <<>>]
ParamsOf(rs) == FirstRaised(rs, {i \in 1..Len(rs) : rs[i].raised # "none"})
SaveParams(p) == ParamsOf([i \in 1..Len(SaveExprs) |-> EvalParam(p, SaveExprs[i])])

\* The row the INSERT writes: each parameter bound, then converted by the
\* affinity of the column at its position.
RowOf(bs) ==
    IF \E i \in 1..Len(bs) : ~bs[i].ok THEN [ok |-> FALSE, row |-> <<>>]
    ELSE [ok |-> TRUE,
          row |-> [i \in 1..Len(bs) |-> ApplyAffinity(Affinity(Columns[i]), bs[i].sql)]]
BindRow(params) == RowOf([i \in 1..Len(params) |-> Adapt(params[i])])

\* ------------------------------------------------------------------ state

VARIABLES
    tableExists,  \* whether hortus_v2.db holds the plants table
    rows,         \* the committed rows of plants, in insertion order
    openConns,    \* connections opened and not closed: [op, pending]
    clock,        \* the wall clock datetime.now() reads
    created,      \* history: id -> the record of the first successful upsert of id
    latest,       \* history: id -> the record of the latest successful upsert of id
    out           \* what the last operation did: its inputs, its result, what it signalled

vars == <<tableExists, rows, openConns, clock, created, latest, out>>

\* No research was part of the operation.
NoEnv == [secret |-> PyNone, environ |-> PyNone, remote |-> "unused", text |-> ""]
NoFrame == <<"frame", [columns |-> <<>>, rows |-> <<>>]>>

\* op: the operation; fault: the storage fault injected into it; raised: the
\* exception that left it ("none": it returned); signal: the st.warning /
\* st.error / st.success it showed; result: what it returned; calls: the remote
\* model calls it made; arg: the record it was given; env: the configuration
\* and the remote model's behaviour it met.
Out(op, fault, raised, signal, result, calls, arg, env) ==
    [op |-> op, fault |-> fault, raised |-> raised, signal |-> signal,
     result |-> result, calls |-> calls, arg |-> arg, env |-> env]

Conn(op, pending) == [op |-> op, pending |-> pending]

\* A connection left open holds an uncommitted write: other writers find the
\* database locked.
WriterPending == \E i \in 1..Len(openConns) : openConns[i].pending

Init ==
    /\ tableExists = FALSE
    /\ rows = <<>>
    /\ openConns = <<>>
    /\ clock = 1
    /\ created = <<>>
    /\ latest = <<>>
    /\ out = Out("none", "none", "none", "none", PyNone, 0, PyNone, NoEnv)

\* ---------------------------------------------------------------- init_db

\* DROP TABLE IF EXISTS followed by CREATE TABLE: C6 tells it from the statement used.
SqlDropAndCreate(exists, table) == [exists |-> TRUE, table |-> <<>>]

\* CREATE TABLE IF NOT EXISTS plants (...): the table and its rows afterwards.
SqlCreateTableIfNotExists(exists, table) ==
    [exists |-> TRUE, table |-> IF exists THEN table ELSE <<>>]

\* init_db(): connect, execute the CREATE (DDL runs outside a transaction, so
\* it is durable once executed), commit, close.  A fault at execute or commit
\* raises past conn.close().
InitDbOutcome(fault) ==
    IF fault = "connect"
    THEN [raised |-> "OperationalError", exists |-> tableExists, table |-> rows, leak |-> <<>>]
    ELSE IF fault = "execute"
    THEN [raised |-> "OperationalError", exists |-> tableExists, table |-> rows,
          leak |-> <<Conn("init_db", FALSE)>>]
    ELSE LET c == SqlCreateTableIfNotExists(tableExists, rows)
         IN IF fault = "commit"
            THEN [raised |-> "OperationalError", exists |-> c.exists, table |-> c.table,
                  leak |-> <<Conn("init_db", FALSE)>>]
            ELSE [raised |-> "none", exists |-> c.exists, table |-> c.table, leak |-> <<>>]

InitDb(fault) ==
    LET o == InitDbOutcome(fault)
    IN /\ Len(openConns) + Len(o.leak) <= MaxOpen
       /\ tableExists' = o.exists
       /\ rows' = o.table
       /\ openConns' = openConns \o o.leak
       /\ out' = Out("init_db", fault, o.raised, "none", PyNone, 0, PyNone, NoEnv)
       /\ UNCHANGED <<clock, created, latest>>

\* -------------------------------------------------------------- save_plant

\* save_plant(p): connect, build the parameter tuple, execute the INSERT OR
\* REPLACE, commit, close.  Nothing is caught: an exception after connect
\* leaves the function before conn.close().
Raised(exc, pending) ==
    [raised |-> exc, table |-> rows, leak |-> <<Conn("save_plant", pending)>>]
\* execute and commit, the parameters bound to the row b.row
SaveRow(fault, b) ==
    IF ~b.ok THEN Raised("ProgrammingError", FALSE)
    ELSE IF fault = "execute" \/ WriterPending THEN Raised("OperationalError", FALSE)
    ELSE IF fault = "commit" THEN Raised("OperationalError", TRUE)
    ELSE [raised |-> "none", table |-> SqlInsertOrReplace(rows, b.row), leak |-> <<>>]
\* the statement, its parameter tuple evaluated to sp
SaveWith(fault, sp) ==
    IF sp.raised # "none" THEN Raised(sp.raised, FALSE)
    ELSE IF ~tableExists THEN Raised("OperationalError", FALSE)
    ELSE SaveRow(fault, BindRow(sp.params))
SaveOutcome(p, fault) ==
    IF fault = "connect"
    THEN [raised |-> "OperationalError", table |-> rows, leak |-> <<>>]
    ELSE SaveWith(fault, SaveParams(p))

\* The history after a save: the record becomes the latest of its id, and the
\* first if the id is new.
Key(table) == table[Len(table)][1][2]
CreatedAfter(o, p) ==
    IF o.raised # "none" \/ Key(o.table) \in DOMAIN created THEN created
    ELSE (Key(o.table) :> p) @@ created
LatestAfter(o, p) ==
    IF o.raised # "none" THEN latest ELSE (Key(o.table) :> p) @@ latest

SavePlantDone(p, fault, o) ==
    /\ Len(openConns) + Len(o.leak) <= MaxOpen
    /\ rows' = o.table
    /\ openConns' = openConns \o o.leak
    /\ created' = CreatedAfter(o, p)
    /\ latest' = LatestAfter(o, p)
    /\ out' = Out("save_plant", fault, o.raised, "none", PyNone, 0, p, NoEnv)
    /\ UNCHANGED <<tableExists, clock>>
SavePlant(p, fault) == SavePlantDone(p, fault, SaveOutcome(p, fault))

\* ---------------------------------------------------------- get_all_plants

\* pandas' value for a stored value.
FromSql(x) ==
    CASE x[1] = "NULL" -> PyNone
      [] x[1] = "INTEGER" -> PyInt(x[2])
      [] x[1] = "REAL" -> PyFloat(x[2])
      [] x[1] = "TEXT" -> PyStr(x[2])

\* pd.read_sql_query("SELECT * FROM plants", conn): one dict per row, keyed by
\* column name.
ReadFrame(table) ==
    [columns |-> Columns,
     rows |-> [i \in 1..Len(table) |->
                  PyDict([j \in 1..Len(Columns) |-> <<Columns[j], FromSql(table[i][j])>>])]]

\* A read without the deserialization of usda_zones: C1 tells it from the lambda.
KeepText(x) == [ok |-> TRUE, val |-> x]

\* lambda x: json.loads(x) if isinstance(x, str) else x
DeserializeZones(x) ==
    IF Tag(x) = "str" THEN json_loads(Val(x)) ELSE [ok |-> TRUE, val |-> x]

\* get_all_plants(): connect, read, close, deserialize usda_zones; any
\* exception is caught, shown with st.error and answered with an empty frame.
\* conn.close() is skipped when the read raises.
ReadFailed(leak) ==
    [raised |-> "none", signal |-> "error", result |-> NoFrame, leak |-> leak]
\* df['usda_zones'].apply(...), zs the outcome for each row
FrameWith(df, zs) ==
    IF \E i \in 1..Len(zs) : ~zs[i].ok THEN ReadFailed(<<>>)
    ELSE [raised |-> "none", signal |-> "none",
          result |-> <<"frame",
                       [columns |-> df.columns,
                        rows |-> [i \in 1..Len(zs) |->
                                     SetItem(df.rows[i], "usda_zones", zs[i].val)]]>>,
          leak |-> <<>>]
Deserialized(df) ==
    FrameWith(df, [i \in 1..Len(df.rows) |->
                      DeserializeZones(GetItem(df.rows[i], "usda_zones"))])
\* get_all_plants without its try/except: C8 tells it from the function.
GetAllPlantsUncaught(fault) ==
    IF fault = "connect"
    THEN [raised |-> "OperationalError", signal |-> "none", result |-> NoFrame, leak |-> <<>>]
    ELSE IF fault = "read" \/ ~tableExists
    THEN [raised |-> "DatabaseError", signal |-> "none", result |-> NoFrame,
          leak |-> <<Conn("get_all_plants", FALSE)>>]
    ELSE Deserialized(ReadFrame(rows))
GetAllPlantsOutcome(fault) ==
    IF fault = "connect" THEN ReadFailed(<<>>)
    ELSE IF fault = "read" \/ ~tableExists THEN ReadFailed(<<Conn("get_all_plants", FALSE)>>)
    ELSE Deserialized(ReadFrame(rows))

GetAllPlantsDone(fault, o) ==
    /\ Len(openConns) + Len(o.leak) <= MaxOpen
    /\ openConns' = openConns \o o.leak
    /\ out' = Out("get_all_plants", fault, o.raised, o.signal, o.result, 0, PyNone, NoEnv)
    /\ UNCHANGED <<tableExists, rows, clock, created, latest>>
GetAllPlants(fault) == GetAllPlantsDone(fault, GetAllPlantsOutcome(fault))

\* -------------------------------------------------------- perform_research

FullResponse ==
    "{\"common_name\": \"Aloe\", \"scientific_name\": \"Aloe vera\", "
    \o "\"usda_zones\": [9, 10, 11], \"min_temp\": 20, \"max_temp\": 110.5, "
    \o "\"drought_tolerance\": \"high\", \"watering_requirements\": \"deep\", "
    \o "\"watering_frequency\": \"rare\", \"sunlight\": \"full\", \"soil_type\": \"sandy\", "
    \o "\"fertilization_schedule\": \"yearly\", \"herbal_benefits\": \"burns\", "
    \o "\"herbal_properties\": \"emollient\", \"herbal_dosage\": \"topical\", "
    \o "\"herbal_notes\": \"hn\", \"notes\": \"n\"}"

\* What the remote model may answer: a full object, prose, a truncated object,
\* an empty object, an object without most keys, and a list.
Responses ==
    << FullResponse,
       "Sorry, I cannot help with that.",
       "{\"common_name\": \"Aloe\", \"usda_zones\": [9, 10",
       "{}",
       "{\"common_name\": \"Aloe\"}",
       "[1]" >>

\* json.loads over the texts the remote model answers with, computed once.
LoadedResponses == [t \in 1..Len(Responses) |-> json_loads(Responses[t])]
LoadResponse(text) ==
    IF \E t \in 1..Len(Responses) : Responses[t] = text
    THEN LoadedResponses[CHOOSE t \in 1..Len(Responses) : Responses[t] = text]
    ELSE json_loads(text)

\* st.secrets.get("API_KEY") or os.environ.get("API_KEY")
ResolveApiKey(secret, environ) == IF Truthy(secret) THEN secret ELSE environ

\* perform_research(common, scientific, description) where the configuration
\* holds secret and environ and the remote model, if called, raises
\* (remote = "raise") or answers text.  The inputs only fill the prompt.
Parsed(j) ==
    IF j.ok THEN [raised |-> "none", signal |-> "none", result |-> j.val, calls |-> 1]
    ELSE [raised |-> "none", signal |-> "error", result |-> PyNone, calls |-> 1]
\* perform_research without the check of the key: C4 tells it from the function.
PerformResearchUnguarded(secret, environ, remote, text) ==
    IF remote = "raise"
    THEN [raised |-> "none", signal |-> "error", result |-> PyNone, calls |-> 1]
    ELSE Parsed(LoadResponse(text))
\* perform_research without its try/except: C5 tells it from the function.
PerformResearchUncaught(secret, environ, remote, text) ==
    IF ~Truthy(ResolveApiKey(secret, environ))
    THEN [raised |-> "none", signal |-> "warning", result |-> PyNone, calls |-> 0]
    ELSE IF remote = "raise"
    THEN [raised |-> "Exception", signal |-> "none", result |-> PyNone, calls |-> 1]
    ELSE IF LoadResponse(text).ok THEN Parsed(LoadResponse(text))
    ELSE [raised |-> "JSONDecodeError", signal |-> "none", result |-> PyNone, calls |-> 1]
PerformResearch(secret, environ, remote, text) ==
    IF ~Truthy(ResolveApiKey(secret, environ))
    THEN [raised |-> "none", signal |-> "warning", result |-> PyNone, calls |-> 0]
    ELSE IF remote = "raise"
    THEN [raised |-> "none", signal |-> "error", result |-> PyNone, calls |-> 1]
    ELSE Parsed(LoadResponse(text))

\* The configuration and the remote model's behaviour an invocation met; the
\* remote model is not consulted ("none") when no key is resolved.
Env(secret, environ, remote, text) ==
    [secret |-> secret, environ |-> environ,
     remote |-> IF Truthy(ResolveApiKey(secret, environ)) THEN remote ELSE "none",
     text |-> IF Truthy(ResolveApiKey(secret, environ)) /\ remote = "text" THEN text ELSE ""]

PerformResearchDone(r, env) ==
    /\ out' = Out("perform_research", "none", r.raised, r.signal, r.result, r.calls, PyNone, env)
    /\ UNCHANGED <<tableExists, rows, openConns, clock, created, latest>>
PerformResearchCall(secret, environ, remote, text) ==
    PerformResearchDone(PerformResearch(secret, environ, remote, text),
                        Env(secret, environ, remote, text))

\* ------------------------------------------------- Research Lab form handler

\* str(datetime.now().timestamp()) at tick n
TimestampStr(n) == FloatToStr(10 * n)

\* res['id'] = ...; res['date_added'] = ...; res['is_wishlist'] = wish_in, the
\* clock read at tick now and then dt later
Stamped(res, wish, now, dt) ==
    SetItem(SetItem(SetItem(res, "id", PyStr(TimestampStr(now))),
                    "date_added", PyDatetime(now + dt)),
            "is_wishlist", PyBool(wish))

\* save_plant(res); st.success(...), o the outcome of the save
Archived(fault, dt, r, env, p, o) ==
    /\ clock + dt <= MaxClock
    /\ Len(openConns) + Len(o.leak) <= MaxOpen
    /\ clock' = clock + dt + 1
    /\ rows' = o.table
    /\ openConns' = openConns \o o.leak
    /\ created' = CreatedAfter(o, p)
    /\ latest' = LatestAfter(o, p)
    /\ out' = Out("submit", fault, o.raised,
                  IF o.raised = "none" THEN "success" ELSE r.signal,
                  PyNone, r.calls, p, env)
    /\ UNCHANGED tableExists
Archive(fault, dt, r, env, p) == Archived(fault, dt, r, env, p, SaveOutcome(p, fault))

\* if res: ..., r the outcome of perform_research
Researched(wish, fault, dt, r, env) ==
    IF ~Truthy(r.result)
    THEN /\ out' = Out("submit", "none", r.raised, r.signal, PyNone, r.calls, PyNone, env)
         /\ UNCHANGED <<tableExists, rows, openConns, clock, created, latest>>
    ELSE IF Tag(r.result) # "dict"
    THEN \* res['id'] = ... on a list, a str, a number or True
         /\ out' = Out("submit", "none", "TypeError", r.signal, PyNone, r.calls, PyNone, env)
         /\ UNCHANGED <<tableExists, rows, openConns, clock, created, latest>>
    ELSE Archive(fault, dt, r, env, Stamped(r.result, wish, clock, dt))

\* The handler of "Initiate Research Protocol": blank says that the three text
\* inputs are all empty; dt is the time that passes between the two reads of
\* the clock.  The clock is taken to advance between two submissions.
Submit(blank, wish, secret, environ, remote, text, fault, dt) ==
    IF blank
    THEN /\ out' = Out("submit", "none", "none", "error", PyNone, 0, PyNone, NoEnv)
         /\ UNCHANGED <<tableExists, rows, openConns, clock, created, latest>>
    ELSE Researched(wish, fault, dt, PerformResearch(secret, environ, remote, text),
                    Env(secret, environ, remote, text))

\* ------------------------------------------------------ garbage collection

\* The interpreter finalizes a connection object nothing refers to any more:
\* that closes it and rolls its uncommitted write back.  When this happens is
\* not decided by the program.
Finalize(i) ==
    /\ i \in 1..Len(openConns)
    /\ openConns' = [j \in 1..(Len(openConns) - 1) |->
                        IF j < i THEN openConns[j] ELSE openConns[j + 1]]
    /\ UNCHANGED <<tableExists, rows, clock, created, latest, out>>

\* ----------------------------------------------------------------- inputs

\* Records given to save_plant directly.  Each text field has its own value.
\*   1: the Aloe of the example, no images / grounding_sources keys
\*   2: empty zones, an int min_temp, images and grounding_sources given
\*   3: as 1, without the usda_zones key
BasePlant(id, k) ==
    << <<"id", PyStr(id)>>,
       <<"common_name", PyStr(IF k = 2 THEN "Agave" ELSE "Aloe")>>,
       <<"scientific_name", PyStr(IF k = 2 THEN "Agave americana" ELSE "Aloe vera")>>,
       <<"usda_zones", PyList(IF k = 2 THEN <<>> ELSE <<PyInt(9), PyInt(10), PyInt(11)>>)>>,
       <<"min_temp", IF k = 2 THEN PyInt(-5) ELSE PyFloat(200)>>,
       <<"max_temp", IF k = 2 THEN PyFloat(955) ELSE PyFloat(1100)>>,
       <<"drought_tolerance", PyStr("high")>>,
       <<"watering_requirements", PyStr("deep, infrequent")>>,
       <<"watering_frequency", PyStr("every 3 weeks")>>,
       <<"sunlight", PyStr("full sun")>>,
       <<"soil_type", PyStr("sandy")>>,
       <<"fertilization_schedule", PyStr("yearly")>>,
       <<"notes", PyStr("n")>>,
       <<"herbal_benefits", PyStr("soothes burns")>>,
       <<"herbal_properties", PyStr("emollient")>>,
       <<"herbal_dosage", PyStr("topical")>>,
       <<"herbal_notes", PyStr("hn")>>,
       <<"is_wishlist", PyBool(k = 2)>>,
       <<"date_added", PyDatetime(k)>> >>

MkPlant(id, k) ==
    CASE k = 1 -> PyDict(BasePlant(id, 1))
      [] k = 2 -> PyDict(BasePlant(id, 2)
                         \o << <<"images", PyList(<<PyStr("a.png")>>)>>,
                               <<"grounding_sources", PyList(<<>>)>> >>)
      [] k = 3 -> PyDict(SelectSeq(BasePlant(id, 1), LAMBDA kv : kv[1] # "usda_zones"))

Profiles == {1, 2, 3}
Ids == {"1.0", "1700000000.0"}


\* Configurations: no key anywhere, an empty secret, a key in the environment
\* only, a key in the secrets store.
Configs ==
    << <<PyNone, PyNone>>, <<PyStr(""), PyNone>>, <<PyNone, PyStr("sk-env")>>,
       <<PyStr("sk-secret"), PyNone>> >>

RemoteKind(t) == IF t = 0 THEN "raise" ELSE "text"
RemoteText(t) == IF t = 0 THEN "" ELSE Responses[t]

StoreFaults == {"none", "connect", "execute", "commit"}
ReadFaults == {"none", "connect", "read"}
SubmitFaults == {"none", "execute"}

\* The inputs of a submission that its path reads: the remote model's behaviour
\* only with a key, the checkbox, the storage fault and the clock only when the
\* result is a record to save.
Saves(r) == Truthy(r.result) /\ Tag(r.result) = "dict"
Read(c, t, w, f, dt) ==
    /\ Truthy(ResolveApiKey(Configs[c][1], Configs[c][2])) \/ t = 0
    /\ \/ Saves(PerformResearch(Configs[c][1], Configs[c][2], RemoteKind(t), RemoteText(t)))
       \/ (~w /\ f = "none" /\ dt = 0)

\* ------------------------------------------------------------------- Next

\* The record store, called directly, under storage faults.
StoreNext ==
    \/ \E f \in StoreFaults : InitDb(f)
    \/ \E id \in Ids, k \in Profiles, f \in StoreFaults : SavePlant(MkPlant(id, k), f)
    \/ \E f \in ReadFaults : GetAllPlants(f)
    \/ \E i \in 1..Len(openConns) : Finalize(i)

\* The research client and the Research Lab page over the store.
ResearchNext ==
    \/ InitDb("none")
    \/ GetAllPlants("none")
    \/ \E c \in 1..Len(Configs), t \in 0..Len(Responses) :
          /\ Read(c, t, FALSE, "none", 0)
          /\ PerformResearchCall(Configs[c][1], Configs[c][2], RemoteKind(t), RemoteText(t))
    \/ Submit(TRUE, FALSE, PyNone, PyNone, "raise", "", "none", 0)
    \/ \E c \in 1..Len(Configs), t \in 0..Len(Responses), w \in BOOLEAN,
          f \in SubmitFaults, dt \in {0, 1} :
          /\ Read(c, t, w, f, dt)
          /\ Submit(FALSE, w, Configs[c][1], Configs[c][2], RemoteKind(t), RemoteText(t), f, dt)
    \/ \E i \in 1..Len(openConns) : Finalize(i)

Next == StoreNext \/ ResearchNext

\* The whole program.
Spec == Init /\ [][Next]_vars
\* The record store alone.
StoreSpec == Init /\ [][StoreNext]_vars
\* The research flow alone.
ResearchSpec == Init /\ [][ResearchNext]_vars

\* ------------------------------------------------------------- properties

\* The row save_plant writes for the record p.
Bound(p) == BindRow(SaveParams(p).params).row
\* The positions of the stored rows whose id is the text id.
RowsWithId(id) == {i \in 1..Len(rows) : rows[i][1][1] = "TEXT" /\ rows[i][1][2] = id}
TheRow(id) == rows[CHOOSE i \in RowsWithId(id) : TRUE]
\* Two stored rows hold the same value, of the same storage class, in every column.
SameRow(a, b) == \A c \in 1..Len(Columns) : a[c][1] = b[c][1] /\ a[c][2] = b[c][2]
\* The last operation was a read that returned the table.
ReadOk == out.op = "get_all_plants" /\ out.signal = "none"
FrameRows == Val(out.result).rows
FrameRowsWithId(id) ==
    {i \in 1..Len(FrameRows) : PyEq(GetItem(FrameRows[i], "id"), PyStr(id))}
SequenceColumns == {"usda_zones", "images", "grounding_sources"}
ScalarColumns == {Columns[i] : i \in 1..Len(Columns)} \ (SequenceColumns \cup {"date_added"})
AllPopulated(r) == \A i \in 1..Len(Columns) : HasKey(r, Columns[i])

\* r as a read returns it: scalars equal under ==, usda_zones the same list,
\* images and grounding_sources as JSON text, date_added as ISO text.
ReturnedAs(r, row) ==
    /\ \A c \in ScalarColumns : PyEq(GetItem(row, c), GetItem(r, c))
    /\ Tag(GetItem(row, "usda_zones")) = "list"
    /\ PyEq(GetItem(row, "usda_zones"), GetItem(r, "usda_zones"))
    /\ PyEq(GetItem(row, "images"),
            PyStr(json_dumps(DictGet(r, "images", PyList(<<>>))).text))
    /\ PyEq(GetItem(row, "grounding_sources"),
            PyStr(json_dumps(DictGet(r, "grounding_sources", PyList(<<>>))).text))
    /\ PyEq(GetItem(row, "date_added"), PyStr(IsoFormat(Val(GetItem(r, "date_added")))))

C2_UpsertOverwrite ==
    /\ \A i, j \in 1..Len(rows) : i # j => ~SameKey(rows[i][1], rows[j][1])
    /\ \A id \in DOMAIN latest :
          /\ Cardinality(RowsWithId(id)) = 1
          /\ SameRow(TheRow(id), Bound(latest[id]))

\* An id was upserted twice with different records, beside another id.
C2_Witness ==
    /\ out.op = "save_plant" /\ out.raised = "none"
    /\ Len(rows) = 2
    /\ \E id \in DOMAIN latest :
          Val(GetItem(created[id], "common_name")) # Val(GetItem(latest[id], "common_name"))

\* C3 (as stated): a save of a record without one of usda_zones, images,
\* grounding_sources succeeds and stores "[]" for the absent field.
C3_AbsentIsEmpty ==
    (/\ out.op = "save_plant" /\ out.fault = "none" /\ tableExists /\ ~WriterPending
     /\ \E c \in SequenceColumns : ~HasKey(out.arg, c))
    => /\ out.raised = "none"
       /\ \A id \in RowsWithId(Val(GetItem(out.arg, "id"))) : \A c \in SequenceColumns :
             ~HasKey(out.arg, c) =>
                 (rows[id][ColumnIndex(c)][1] = "TEXT" /\ rows[id][ColumnIndex(c)][2] = "[]")
       /\ RowsWithId(Val(GetItem(out.arg, "id"))) # {}

\* The store holds what the successful upserts wrote, and nothing else.
StoreAsWritten ==
    /\ Len(rows) = Cardinality(DOMAIN latest)
    /\ \A id \in DOMAIN latest :
          /\ Cardinality(RowsWithId(id)) = 1
          /\ SameRow(TheRow(id), Bound(latest[id]))

\* C7 (as stated): a save that fails at the storage layer is caught in
\* save_plant and reported, and the store is as before.
C7_FailedSaveReported ==
    (out.op = "save_plant" /\ out.fault # "none")
    => (out.raised = "none" /\ out.signal = "error" /\ StoreAsWritten)

\* C9 (as stated): when an operation has ended, the connection it opened is
\* closed, whichever way it ended.
C9_ConnectionsReleased == Len(openConns) = 0

\* C10 (as amended): the date_added stored for an id is the one of its latest
\* upsert, and every id ever stored is still stored.
C10_DateAddedOfLatest ==
    \A id \in DOMAIN created :
        /\ Cardinality(RowsWithId(id)) = 1
        /\ TheRow(id)[ColumnIndex("date_added")][2]
              = Adapt(GetItem(latest[id], "date_added")).sql[2]

\* C10 (as stated): the date_added stored for an id is the one of the upsert
\* that created it.
C10_DateAddedOfFirst ==
    \A id \in DOMAIN created :
        /\ Cardinality(RowsWithId(id)) = 1
        /\ TheRow(id)[ColumnIndex("date_added")][2]
              = Adapt(GetItem(created[id], "date_added")).sql[2]

\* An id was upserted again with another date_added.
C10_Witness ==
    \E id \in DOMAIN created :
        /\ RowsWithId(id) # {}
        /\ Val(GetItem(created[id], "date_added")) # Val(GetItem(latest[id], "date_added"))

\* C6: init_db changes no stored row and never removes the table; where the
\* table exists it raises nothing (unless the storage fails), and after it
\* the CREATE TABLE IF NOT EXISTS changes nothing when run again.
C6_EnsureSchemaIdempotent ==
    [][(\E f \in StoreFaults : InitDb(f)) =>
          /\ rows' = rows
          /\ tableExists => tableExists'
          /\ (tableExists /\ out'.fault = "none") => out'.raised = "none"
          /\ out'.raised = "none" =>
                /\ tableExists'
                /\ SqlCreateTableIfNotExists(tableExists', rows').table = rows']_vars

\* init_db has run over a table that holds rows.
C6_Witness == out.op = "init_db" /\ out.raised = "none" /\ Len(rows) > 0

\* C8: a read that meets a storage failure returns an empty frame and shows an
\* error instead of raising; a read of a fresh table returns an empty frame
\* and shows none; no read changes the store.
C8_ReadDegrades ==
    [][out'.op = "get_all_plants" =>
          /\ out'.raised = "none"
          /\ (out'.fault # "none" \/ ~tableExists) =>
                (Len(FrameRows') = 0 /\ out'.signal = "error")
          /\ (out'.fault = "none" /\ tableExists /\ DOMAIN latest = {}) =>
                (Len(FrameRows') = 0 /\ out'.signal = "none")
          /\ rows' = rows /\ tableExists' = tableExists]_vars

\* A read has failed over a table that holds rows.
C8_Witness == out.op = "get_all_plants" /\ out.fault = "read" /\ Len(rows) > 0

\* Research was invoked and neither source held a key.
NoKey == out.env.remote # "unused" /\ ~Truthy(out.env.secret) /\ ~Truthy(out.env.environ)

\* C4: with no key in the secrets store or the environment, research returns
\* None, shows the warning and does not call the remote model.
C4_MissingCredential ==
    NoKey => /\ Tag(out.result) = "none"
             /\ out.signal = "warning"
             /\ out.calls = 0
             /\ out.raised = "none"

\* Research was invoked with an empty secret and no environment key.
C4_Witness == out.op = "perform_research" /\ NoKey /\ Tag(out.env.secret) = "str"

\* Research was invoked with a key and the remote call raised or answered text
\* that is not JSON.
RemoteFailed ==
    \/ out.env.remote = "raise"
    \/ out.env.remote = "text" /\ ~json_loads(out.env.text).ok

\* C5: when the remote call fails or answers text that is not JSON, research
\* returns None and shows an error, nothing propagates, the remote model was
\* called once, and the store is unchanged.
C5_ResearchFailed ==
    /\ [](RemoteFailed => /\ Tag(out.result) = "none"
                          /\ out.signal = "error"
                          /\ out.raised = "none"
                          /\ out.calls = 1)
    /\ [][(out'.env.remote # "unused" /\ out'.signal = "error") =>
            (rows' = rows /\ tableExists' = tableExists)]_vars

\* A submission got truncated JSON back while the store held a row.
C5_Witness ==
    /\ out.op = "submit" /\ out.env.remote = "text" /\ out.env.text = Responses[3]
    /\ Len(rows) > 0

====
